---- MODULE Spec2Model ----
(***************************************************************************)
(* Model of yival/experiment/experiment_runner.py: ExperimentRunner.run    *)
(* and its two schedulers, the cooperative _aprocess_dataset (asyncio,     *)
(* semaphore, shared rate limiter, blanket retry) and the parallel         *)
(* _process_dataset (one ThreadPoolExecutor per batch, executor.map).      *)
(*                                                                         *)
(* A Task is one data point evaluated against all_combinations; tasks are  *)
(* numbered 1..NumData in the order the data source yields them.           *)
(* The collaborators that are not in the source file (DataProcessor, both  *)
(* RateLimiter classes, the evaluation engine behind run_single_input and  *)
(* arun_single_input) are modelled at their interface.                     *)
(***************************************************************************)
EXTENDS Integers, Sequences, FiniteSets

\* ------------------------------------------------------------------ bounds

\* Largest number of data points of a cooperative run.
MaxAsyncData == 3
\* Largest number of data points of a parallel run: more than a batch, and
\* a batch of more than the pool.
MaxSyncData == 4
\* Largest number of variation combinations (0 is the empty list).
MaxCombinations == 2
\* Size of a batch yielded by DataProcessor.process_data.
ChunkSize == 3
\* asyncio.Semaphore(20) at line 63, scaled down so that more tasks than
\* slots exist.
SemaphoreSize == 2
\* common.RateLimiter(100 / 60, 10000) at line 66: the budget's capacity,
\* scaled down so that the cap and the empty budget are both reached.
Capacity == 2
\* ThreadPoolExecutor() at line 112: max_workers, scaled down likewise.
PoolSize == 2
\* The evaluation engine raises at most this many times in one run.
MaxFailures == 2

VARIABLES
    async_eval,       \* run()'s async_eval argument
    all_combinations, \* len(all_combinations)
    data_batches,     \* the batches of data points, each a sequence of task ids
    mainpc,           \* where run() is
    pc,               \* pc[t]: where task t is
    results,          \* the scheduler's results list, of <<data point, combination>>
    semaphore,        \* value of the asyncio.Semaphore
    balance,          \* available units of the cooperative rate limiter
    completed,        \* futures done and not yet yielded by as_completed
    retval,           \* retval[t]: what task t returned
    batch,            \* parallel: index of the batch being mapped
    idx,              \* parallel: position in the batch of the next result
    limiter_of,       \* parallel: the RateLimiter instance task t called
    pbar_n,           \* tqdm: count so far
    pbar_total,       \* tqdm: total
    failures,         \* exceptions the engine has raised so far
    exc,              \* exc[t]: the exception task t is handling or ended with
    draws,            \* draws[t]: completed rate_limiter.wait() calls
    backoffs,         \* backoffs[t]: completed asyncio.sleep(100) calls
    fails,            \* fails[t]: attempts of task t that ended in an exception
    reported          \* reported[t]: token usage passed to add_tokens

vars == <<async_eval, all_combinations, data_batches, mainpc, pc, results,
          semaphore, balance, completed, retval, batch, idx, limiter_of,
          pbar_n, pbar_total, failures, exc, draws, backoffs, fails,
          reported>>

\* ----------------------------------------------------------------- helpers

Min(a, b) == IF a < b THEN a ELSE b

RECURSIVE SumLen(_)
SumLen(s) == IF s = <<>> THEN 0 ELSE Len(Head(s)) + SumLen(Tail(s))

\* The data source: n data points in batches of ChunkSize, in order.
ProcessData(n) ==
    [b \in 1..((n + ChunkSize - 1) \div ChunkSize) |->
        [i \in 1..Min(ChunkSize, n - (b - 1) * ChunkSize) |->
            (b - 1) * ChunkSize + i]]

NumData == SumLen(data_batches)
Data == 1..NumData
Combinations == 1..all_combinations

\* The evaluation engine's answer for one task: one result per combination.
RunSingleInput(t) == [v \in Combinations |-> <<t, v>>]

\* result.token_usage of the result for combination v of data point d.
TokenUsage(r) == r[2]

RECURSIVE TotalUsage(_)
TotalUsage(rs) ==
    IF rs = <<>> THEN 0 ELSE TokenUsage(Head(rs)) + TotalUsage(Tail(rs))

\* The kinds of exception the evaluation engine raises.
FailureKinds == {"ThroughputLimitExceeded", "EvaluationFailure"}

\* ---------------------------------------------------------- the rate budget

\* common.RateLimiter.wait() returns only when a unit is available.
CanDraw(b) == b >= 1

\* ... and takes that unit. (DrawNothing returns without taking it.)
DrawNothing(b) == b

DrawUnit(b) == b - 1

\* common.RateLimiter.add_tokens(n): n units back, capped at the capacity.
\* (ReplenishUncapped forgets the cap.)
ReplenishUncapped(b, n) == b + n

Replenish(b, n) == Min(b + n, Capacity)

\* Passive refill: one unit accrues, up to the capacity.
Refill(b) == Min(b + 1, Capacity)

\* for result in resutls: rate_limiter.add_tokens(result.token_usage)
RECURSIVE AddTokens(_, _)
AddTokens(b, rs) ==
    IF rs = <<>> THEN b
    ELSE AddTokens(Replenish(b, TokenUsage(Head(rs))), Tail(rs))

\* What that loop has passed to add_tokens when it ends.
ReportUsage(rs) == TotalUsage(rs)

\* What has been passed to add_tokens when arun_single_input raises: the
\* exception leaves the try block at line 73, before the loop of lines
\* 77-78. (UsageOnRaiseFirst is an engine-side report of the first result.)
UsageOnRaiseFirst(t) == TokenUsage(<<t, 1>>)

UsageOnRaise(t) == 0

\* ------------------------------------------------------------ return values

NoneValue == [isnone |-> TRUE, list |-> <<>>]
ListValue(rs) == [isnone |-> FALSE, list |-> rs]
Unset == [isnone |-> FALSE, list |-> <<>>]

\* aparallel_task: the first iteration over all_combinations returns the
\* whole task's results; with no combination the loop body never runs and
\* the coroutine returns None.
AParallelTaskFirstOnly(t) ==
    IF all_combinations = 0 THEN NoneValue
    ELSE ListValue(SubSeq(RunSingleInput(t), 1, 1))

AParallelTask(t) ==
    IF all_combinations = 0 THEN NoneValue ELSE ListValue(RunSingleInput(t))

\* (A variant evaluating only the first combination is AParallelTaskFirstOnly.)

\* parallel_task returns what run_single_input returns.
\* (ParallelTaskFirstOnly evaluates the first combination only.)
ParallelTaskFirstOnly(t) ==
    ListValue(SubSeq(RunSingleInput(t), 1, Min(1, all_combinations)))

ParallelTask(t) == ListValue(RunSingleInput(t))

\* results.extend(value); ExtendFirst is results.append(value[0]).
ExtendFirst(res, val) == res \o SubSeq(val, 1, 1)

Extend(res, val) == res \o val

\* `if results:` in eval_fn_with_semaphore reads the enclosing function's
\* results list (the name bound at line 85), not the task's own resutls.
ResultsTruthy == results # <<>>

\* The RateLimiter instance a parallel task calls: RateLimiter(30 / 60)()
\* constructs one in each call, so each task has its own. The module's
\* rate_limiter of line 35 is never called.
LimiterInstance(t) == t

\* --------------------------------------------------------------------- Init

Init ==
    /\ async_eval \in BOOLEAN
    /\ all_combinations \in 0..MaxCombinations
    /\ \E n \in 0..(IF async_eval THEN MaxAsyncData ELSE MaxSyncData) :
          /\ data_batches = ProcessData(n)
          /\ pc = [t \in 1..n |-> "created"]
          /\ retval = [t \in 1..n |-> Unset]
          /\ limiter_of = [t \in 1..n |-> -1]
          /\ exc = [t \in 1..n |-> "none"]
          /\ draws = [t \in 1..n |-> 0]
          /\ backoffs = [t \in 1..n |-> 0]
          /\ fails = [t \in 1..n |-> 0]
          /\ reported = [t \in 1..n |-> 0]
    /\ mainpc = "start"
    /\ results = <<>>
    /\ semaphore = SemaphoreSize
    /\ balance = Capacity
    /\ completed = <<>>
    /\ batch = 0
    /\ idx = 0
    /\ pbar_n = 0
    /\ pbar_total = 0
    /\ failures = 0

\* ------------------------------------------------- the cooperative scheduler

\* run() with async_eval: _aprocess_dataset up to its as_completed loop.
\* Every data point of every batch gets its future before any of them runs.
RunAsync ==
    /\ mainpc = "start"
    /\ async_eval
    /\ mainpc' = "draining"
    /\ semaphore' = SemaphoreSize
    /\ balance' = Capacity
    /\ pbar_total' = NumData * all_combinations
    /\ pbar_n' = 0
    /\ results' = <<>>
    /\ pc' = [t \in Data |-> "acquire"]
    /\ UNCHANGED <<fails, async_eval, all_combinations, data_batches, completed,
                   retval, batch, idx, limiter_of, failures, exc, draws,
                   backoffs, reported>>

\* async with semaphore: entered when a slot is free. (CanAcquireAlways is
\* the block without the semaphore.)
CanAcquireAlways == TRUE

CanAcquire == semaphore > 0

\* Leaving the async with block gives the slot back. (ReleaseLeak is a
\* block that is left without releasing.)
ReleaseLeak(sem) == sem

Release(sem) == sem + 1

\* The futures start in the order they were created and the semaphore
\* wakes its waiters first come, first served.
AAcquire(t) ==
    /\ mainpc = "draining"
    /\ pc[t] = "acquire"
    /\ \A u \in Data : pc[u] = "acquire" => t <= u
    /\ CanAcquire
    /\ semaphore' = semaphore - 1
    /\ pc' = [pc EXCEPT ![t] = "wait"]
    /\ UNCHANGED <<fails, async_eval, all_combinations, data_batches, mainpc,
                   results, balance, completed, retval, batch, idx,
                   limiter_of, pbar_n, pbar_total, failures, exc, draws,
                   backoffs, reported>>

\* (ADrawOutside is a wait() placed before the async with block.)
ADrawOutside(t) ==
    /\ mainpc = "draining"
    /\ pc[t] = "acquire"
    /\ draws[t] = 0
    /\ CanDraw(balance)
    /\ balance' = DrawUnit(balance)
    /\ draws' = [draws EXCEPT ![t] = @ + 1]
    /\ UNCHANGED <<fails, async_eval, all_combinations, data_batches, mainpc,
                   pc, results, semaphore, completed, retval, batch, idx,
                   limiter_of, pbar_n, pbar_total, failures, exc,
                   backoffs, reported>>

\* await rate_limiter.wait()
ADraw(t) ==
    /\ mainpc = "draining"
    /\ pc[t] = "wait"
    /\ CanDraw(balance)
    /\ balance' = DrawUnit(balance)
    /\ draws' = [draws EXCEPT ![t] = @ + 1]
    /\ pc' = [pc EXCEPT ![t] = "eval"]
    /\ UNCHANGED <<fails, async_eval, all_combinations, data_batches, mainpc,
                   results, semaphore, completed, retval, batch, idx,
                   limiter_of, pbar_n, pbar_total, failures, exc,
                   backoffs, reported>>

\* The budget refills with time while the run goes on.
ARefill ==
    /\ mainpc = "draining"
    /\ balance < Capacity
    /\ balance' = Refill(balance)
    /\ UNCHANGED <<fails, async_eval, all_combinations, data_batches, mainpc, pc,
                   results, semaphore, completed, retval, batch, idx,
                   limiter_of, pbar_n, pbar_total, failures, exc, draws,
                   backoffs, reported>>

\* aparallel_task returns. When `results` is truthy the usage of each result
\* is added to the limiter; iterating None raises TypeError, which the bare
\* except catches like any other exception. Then the task returns, which
\* leaves the async with block and completes its future.
AEvalReturn(t) ==
    /\ mainpc = "draining"
    /\ pc[t] = "eval"
    /\ LET val == AParallelTask(t) IN
       IF ResultsTruthy /\ val.isnone
       THEN /\ pc' = [pc EXCEPT ![t] = "sleep"]
            /\ exc' = [exc EXCEPT ![t] = "TypeError"]
            /\ fails' = [fails EXCEPT ![t] = @ + 1]
            /\ UNCHANGED <<balance, reported, retval, semaphore, completed>>
       ELSE /\ balance' = IF ResultsTruthy THEN AddTokens(balance, val.list)
                          ELSE balance
            /\ reported' = [reported EXCEPT ![t] =
                               IF ResultsTruthy THEN @ + ReportUsage(val.list)
                               ELSE @]
            /\ retval' = [retval EXCEPT ![t] = val]
            /\ pc' = [pc EXCEPT ![t] = "done"]
            /\ semaphore' = Release(semaphore)
            /\ completed' = Append(completed, t)
            /\ UNCHANGED <<exc, fails>>
    /\ UNCHANGED <<async_eval, all_combinations, data_batches, mainpc,
                   results, batch, idx, limiter_of, pbar_n, pbar_total,
                   failures, draws, backoffs>>

\* (AEvalRaiseRelease is a backoff taken outside the async with block: the
\* slot is given back before the sleep.)
AEvalRaiseRelease(t, kind) ==
    /\ mainpc = "draining"
    /\ pc[t] = "eval"
    /\ all_combinations > 0
    /\ failures < MaxFailures
    /\ failures' = failures + 1
    /\ fails' = [fails EXCEPT ![t] = @ + 1]
    /\ exc' = [exc EXCEPT ![t] = kind]
    /\ semaphore' = Release(semaphore)
    /\ pc' = [pc EXCEPT ![t] = "sleep"]
    /\ UNCHANGED <<async_eval, all_combinations, data_batches, mainpc,
                   results, balance, completed, retval, batch, idx,
                   limiter_of, pbar_n, pbar_total, draws, backoffs,
                   reported>>

\* (AEvalRaiseNoBackoff is an except block that goes straight back to the
\* top of the loop.)
AEvalRaiseNoBackoff(t, kind) ==
    /\ mainpc = "draining"
    /\ pc[t] = "eval"
    /\ all_combinations > 0
    /\ failures < MaxFailures
    /\ failures' = failures + 1
    /\ fails' = [fails EXCEPT ![t] = @ + 1]
    /\ pc' = [pc EXCEPT ![t] = "wait"]
    /\ UNCHANGED <<async_eval, all_combinations, data_batches, mainpc,
                   results, semaphore, balance, completed, retval, batch, idx,
                   limiter_of, pbar_n, pbar_total, exc, draws, backoffs,
                   reported>>

\* arun_single_input raises: the bare except prints and goes to sleep,
\* whatever the exception is. The task keeps its slot.
AEvalRaise(t, kind) ==
    /\ mainpc = "draining"
    /\ pc[t] = "eval"
    /\ all_combinations > 0
    /\ failures < MaxFailures
    /\ failures' = failures + 1
    /\ fails' = [fails EXCEPT ![t] = @ + 1]
    /\ exc' = [exc EXCEPT ![t] = kind]
    /\ reported' = [reported EXCEPT ![t] = @ + UsageOnRaise(t)]
    /\ balance' = Replenish(balance, UsageOnRaise(t))
    /\ pc' = [pc EXCEPT ![t] = "sleep"]
    /\ UNCHANGED <<async_eval, all_combinations, data_batches, mainpc,
                   results, semaphore, completed, retval, batch, idx,
                   limiter_of, pbar_n, pbar_total, draws, backoffs>>

\* (AWakeNoDraw is a loop whose wait() is before `while True`: the retry
\* calls aparallel_task without drawing again.)
AWakeNoDraw(t) ==
    /\ mainpc = "draining"
    /\ pc[t] = "sleep"
    /\ backoffs' = [backoffs EXCEPT ![t] = @ + 1]
    /\ exc' = [exc EXCEPT ![t] = "none"]
    /\ pc' = [pc EXCEPT ![t] = "eval"]
    /\ UNCHANGED <<fails, async_eval, all_combinations, data_batches, mainpc,
                   results, semaphore, balance, completed, retval, batch, idx,
                   limiter_of, pbar_n, pbar_total, failures, draws,
                   reported>>

\* asyncio.sleep(100) ends, the except block with it, and the while True
\* loop starts over.
AWake(t) ==
    /\ mainpc = "draining"
    /\ pc[t] = "sleep"
    /\ backoffs' = [backoffs EXCEPT ![t] = @ + 1]
    /\ exc' = [exc EXCEPT ![t] = "none"]
    /\ pc' = [pc EXCEPT ![t] = "wait"]
    /\ UNCHANGED <<fails, async_eval, all_combinations, data_batches, mainpc,
                   results, semaphore, balance, completed, retval, batch, idx,
                   limiter_of, pbar_n, pbar_total, failures, draws,
                   reported>>

\* results.extend(await future) for the next completed future. Extending by
\* None raises TypeError out of _aprocess_dataset; asyncio.run then cancels
\* the tasks that are left, which leave their async with blocks.
AMerge ==
    /\ mainpc = "draining"
    /\ completed # <<>>
    /\ LET t == Head(completed) IN
       IF retval[t].isnone
       THEN /\ mainpc' = "raised"
            /\ pc' = [u \in Data |-> IF pc[u] = "done" THEN "done"
                                     ELSE "cancelled"]
            /\ semaphore' = SemaphoreSize
            /\ UNCHANGED <<results, pbar_n>>
       ELSE /\ results' = Extend(results, retval[t].list)
            /\ pbar_n' = pbar_n + 1
            /\ UNCHANGED <<mainpc, pc, semaphore>>
    /\ completed' = Tail(completed)
    /\ UNCHANGED <<fails, async_eval, all_combinations, data_batches, balance,
                   retval, batch, idx, limiter_of, pbar_total, failures,
                   exc, draws, backoffs, reported>>

\* The for loop over as_completed(futures) ends when every future has been
\* yielded. (ReturnInLoop is `return results` inside the loop's body.)
ReturnInLoop == pbar_n >= 1

AsCompletedExhausted == pbar_n = NumData

\* as_completed is exhausted: return results.
AReturn ==
    /\ mainpc = "draining"
    /\ AsCompletedExhausted
    /\ mainpc' = "returned"
    /\ UNCHANGED <<fails, async_eval, all_combinations, data_batches, pc, results,
                   semaphore, balance, completed, retval, batch, idx,
                   limiter_of, pbar_n, pbar_total, failures, exc, draws,
                   backoffs, reported>>

\* ---------------------------------------------------- the parallel scheduler

CurrentBatch == data_batches[batch]

\* Tasks a worker thread of the pool is running.
Busy == {t \in Data : pc[t] \in {"limiting", "running"}}

\* A worker is free to take the next queued call.
WorkerFree == Cardinality(Busy) < PoolSize

\* run() without async_eval: _process_dataset up to its loop over batches.
RunSync ==
    /\ mainpc = "start"
    /\ ~async_eval
    /\ mainpc' = "loop"
    /\ results' = <<>>
    /\ UNCHANGED <<fails, async_eval, all_combinations, data_batches, pc, semaphore,
                   balance, completed, retval, batch, idx, limiter_of, pbar_n,
                   pbar_total, failures, exc, draws, backoffs, reported>>

\* The next batch: a new progress bar, a new pool, and executor.map submits
\* one parallel_task call per data point of the batch.
PNextBatch ==
    /\ mainpc = "loop"
    /\ batch < Len(data_batches)
    /\ batch' = batch + 1
    /\ idx' = 1
    /\ pbar_n' = 0
    /\ pbar_total' = all_combinations * Len(data_batches[batch + 1])
    /\ pc' = [t \in Data |->
                IF \E i \in DOMAIN data_batches[batch + 1] :
                       data_batches[batch + 1][i] = t
                THEN "queued" ELSE pc[t]]
    /\ mainpc' = "mapping"
    /\ UNCHANGED <<fails, async_eval, all_combinations, data_batches, results,
                   semaphore, balance, completed, retval, limiter_of,
                   failures, exc, draws, backoffs, reported>>

\* A free worker takes the oldest queued call and enters parallel_task.
PTake(t) ==
    /\ pc[t] = "queued"
    /\ \A u \in Data : pc[u] = "queued" => t <= u
    /\ WorkerFree
    /\ pc' = [pc EXCEPT ![t] = "limiting"]
    /\ UNCHANGED <<fails, async_eval, all_combinations, data_batches, mainpc,
                   results, semaphore, balance, completed, retval, batch, idx,
                   limiter_of, pbar_n, pbar_total, failures, exc, draws,
                   backoffs, reported>>

\* RateLimiter(30 / 60)(): a limiter is constructed and called once.
PDraw(t) ==
    /\ pc[t] = "limiting"
    /\ limiter_of' = [limiter_of EXCEPT ![t] = LimiterInstance(t)]
    /\ draws' = [draws EXCEPT ![t] = @ + 1]
    /\ pc' = [pc EXCEPT ![t] = "running"]
    /\ UNCHANGED <<fails, async_eval, all_combinations, data_batches, mainpc,
                   results, semaphore, balance, completed, retval, batch, idx,
                   pbar_n, pbar_total, failures, exc, backoffs, reported>>

\* run_single_input returns and so does parallel_task.
PReturn(t) ==
    /\ pc[t] = "running"
    /\ retval' = [retval EXCEPT ![t] = ParallelTask(t)]
    /\ pc' = [pc EXCEPT ![t] = "finished"]
    /\ UNCHANGED <<fails, async_eval, all_combinations, data_batches, mainpc,
                   results, semaphore, balance, completed, batch, idx,
                   limiter_of, pbar_n, pbar_total, failures, exc, draws,
                   backoffs, reported>>

\* run_single_input raises (the engine runs once per combination, so there
\* is one): nothing in parallel_task catches it, and the exception is
\* stored in the call's future.
PRaise(t, kind) ==
    /\ pc[t] = "running"
    /\ all_combinations > 0
    /\ failures < MaxFailures
    /\ failures' = failures + 1
    /\ fails' = [fails EXCEPT ![t] = @ + 1]
    /\ exc' = [exc EXCEPT ![t] = kind]
    /\ pc' = [pc EXCEPT ![t] = "raised"]
    /\ UNCHANGED <<async_eval, all_combinations, data_batches, mainpc,
                   results, semaphore, balance, completed, retval, batch, idx,
                   limiter_of, pbar_n, pbar_total, draws, backoffs, reported>>

\* The map iterator yields the results in submission order:
\* results.extend(res); pbar.update(len(res)).
PCollect ==
    /\ mainpc = "mapping"
    /\ idx <= Len(CurrentBatch)
    /\ pc[CurrentBatch[idx]] = "finished"
    /\ results' = Extend(results, retval[CurrentBatch[idx]].list)
    /\ pbar_n' = pbar_n + Len(retval[CurrentBatch[idx]].list)
    /\ idx' = idx + 1
    /\ UNCHANGED <<fails, async_eval, all_combinations, data_batches, mainpc, pc,
                   semaphore, balance, completed, retval, batch, limiter_of,
                   pbar_total, failures, exc, draws, backoffs, reported>>

\* The next call in order raised: the iterator re-raises, cancels the
\* calls still queued, and the exception leaves the for loop.
PAbort ==
    /\ mainpc = "mapping"
    /\ idx <= Len(CurrentBatch)
    /\ pc[CurrentBatch[idx]] = "raised"
    /\ pc' = [t \in Data |-> IF pc[t] = "queued" THEN "cancelled" ELSE pc[t]]
    /\ mainpc' = "shutdown"
    /\ UNCHANGED <<fails, async_eval, all_combinations, data_batches, results,
                   semaphore, balance, completed, retval, batch, idx,
                   limiter_of, pbar_n, pbar_total, failures, exc, draws,
                   backoffs, reported>>

\* Leaving `with ThreadPoolExecutor()` waits for the running calls; then the
\* exception leaves _process_dataset and run().
PShutdown ==
    /\ mainpc = "shutdown"
    /\ Busy = {}
    /\ mainpc' = "raised"
    /\ UNCHANGED <<fails, async_eval, all_combinations, data_batches, pc, results,
                   semaphore, balance, completed, retval, batch, idx,
                   limiter_of, pbar_n, pbar_total, failures, exc, draws,
                   backoffs, reported>>

\* The batch's results are all collected: on to the next batch.
PBatchDone ==
    /\ mainpc = "mapping"
    /\ idx > Len(CurrentBatch)
    /\ mainpc' = "loop"
    /\ UNCHANGED <<fails, async_eval, all_combinations, data_batches, pc, results,
                   semaphore, balance, completed, retval, batch, idx,
                   limiter_of, pbar_n, pbar_total, failures, exc, draws,
                   backoffs, reported>>

\* No batch is left: return results.
PFinish ==
    /\ mainpc = "loop"
    /\ batch = Len(data_batches)
    /\ mainpc' = "returned"
    /\ UNCHANGED <<fails, async_eval, all_combinations, data_batches, pc, results,
                   semaphore, balance, completed, retval, batch, idx,
                   limiter_of, pbar_n, pbar_total, failures, exc, draws,
                   backoffs, reported>>

\* ------------------------------------------------- run() after the scheduler

\* generate_experiment(results, evaluator); the configuration names a
\* selection strategy, and execute_selection starts.
RunSelection ==
    /\ mainpc = "returned"
    /\ mainpc' = "selection"
    /\ UNCHANGED <<fails, async_eval, all_combinations, data_batches, pc,
                   results, semaphore, balance, completed, retval, batch, idx,
                   limiter_of, pbar_n, pbar_total, failures, exc, draws,
                   backoffs, reported>>

\* generate_experiment(results, evaluator); get_selection_strategy returns
\* nothing.
RunNoStrategy ==
    /\ mainpc = "returned"
    /\ mainpc' = "selected"
    /\ UNCHANGED <<fails, async_eval, all_combinations, data_batches, pc,
                   results, semaphore, balance, completed, retval, batch, idx,
                   limiter_of, pbar_n, pbar_total, failures, exc, draws,
                   backoffs, reported>>

\* execute_selection returns.
RunSelected ==
    /\ mainpc = "selection"
    /\ mainpc' = "selected"
    /\ UNCHANGED <<fails, async_eval, all_combinations, data_batches, pc,
                   results, semaphore, balance, completed, retval, batch, idx,
                   limiter_of, pbar_n, pbar_total, failures, exc, draws,
                   backoffs, reported>>

\* The configuration names an improver, and improver.improve starts.
RunImprover ==
    /\ mainpc = "selected"
    /\ mainpc' = "improver"
    /\ UNCHANGED <<fails, async_eval, all_combinations, data_batches, pc,
                   results, semaphore, balance, completed, retval, batch, idx,
                   limiter_of, pbar_n, pbar_total, failures, exc, draws,
                   backoffs, reported>>

\* get_improver returns nothing.
RunNoImprover ==
    /\ mainpc = "selected"
    /\ mainpc' = "improved"
    /\ UNCHANGED <<fails, async_eval, all_combinations, data_batches, pc,
                   results, semaphore, balance, completed, retval, batch, idx,
                   limiter_of, pbar_n, pbar_total, failures, exc, draws,
                   backoffs, reported>>

\* improver.improve returns.
RunImproved ==
    /\ mainpc = "improver"
    /\ mainpc' = "improved"
    /\ UNCHANGED <<fails, async_eval, all_combinations, data_batches, pc,
                   results, semaphore, balance, completed, retval, batch, idx,
                   limiter_of, pbar_n, pbar_total, failures, exc, draws,
                   backoffs, reported>>

\* ------------------------------------------------------------ specification

TaskIds == 1..(IF MaxAsyncData > MaxSyncData THEN MaxAsyncData ELSE MaxSyncData)

Next ==
    \/ RunAsync
    \/ \E t \in TaskIds : t \in Data /\ AAcquire(t)
    \/ \E t \in TaskIds : t \in Data /\ ADraw(t)
    \/ ARefill
    \/ \E t \in TaskIds : t \in Data /\ AEvalReturn(t)
    \/ \E t \in TaskIds : \E kind \in FailureKinds :
          t \in Data /\ AEvalRaise(t, kind)
    \/ \E t \in TaskIds : t \in Data /\ AWake(t)
    \/ AMerge
    \/ AReturn
    \/ RunSync
    \/ PNextBatch
    \/ \E t \in TaskIds : t \in Data /\ PTake(t)
    \/ \E t \in TaskIds : t \in Data /\ PDraw(t)
    \/ \E t \in TaskIds : t \in Data /\ PReturn(t)
    \/ \E t \in TaskIds : \E kind \in FailureKinds :
          t \in Data /\ PRaise(t, kind)
    \/ PCollect
    \/ PAbort
    \/ PShutdown
    \/ PBatchDone
    \/ PFinish
    \/ RunSelection
    \/ RunNoStrategy
    \/ RunSelected
    \/ RunImprover
    \/ RunNoImprover
    \/ RunImproved

Spec == Init /\ [][Next]_vars

\* The event loop runs every ready coroutine, timers fire, and the budget
\* refills with time: no enabled step is put off for ever.
FairSpec == Spec /\ WF_vars(Next)

\* The same program with a rate limiter that does not refill with time:
\* units come back through add_tokens only.
NextNoRefill ==
    \/ RunAsync
    \/ \E t \in TaskIds : t \in Data /\ AAcquire(t)
    \/ \E t \in TaskIds : t \in Data /\ ADraw(t)
    \/ \E t \in TaskIds : t \in Data /\ AEvalReturn(t)
    \/ \E t \in TaskIds : \E kind \in FailureKinds :
          t \in Data /\ AEvalRaise(t, kind)
    \/ \E t \in TaskIds : t \in Data /\ AWake(t)
    \/ AMerge
    \/ AReturn
    \/ RunSync
    \/ PNextBatch
    \/ \E t \in TaskIds : t \in Data /\ PTake(t)
    \/ \E t \in TaskIds : t \in Data /\ PDraw(t)
    \/ \E t \in TaskIds : t \in Data /\ PReturn(t)
    \/ \E t \in TaskIds : \E kind \in FailureKinds :
          t \in Data /\ PRaise(t, kind)
    \/ PCollect
    \/ PAbort
    \/ PShutdown
    \/ PBatchDone
    \/ PFinish
    \/ RunSelection
    \/ RunNoStrategy
    \/ RunSelected
    \/ RunImprover
    \/ RunNoImprover
    \/ RunImproved

SpecNoRefill == Init /\ [][NextNoRefill]_vars

\* ------------------------------------------------------------------- claims

\* The entries of the results list that belong to data point t, in order.
EntriesOf(t) == SelectSeq(results, LAMBDA r : r[1] = t)

\* How often the pair <<d, v>> is in the results list.
Occurrences(d, v) ==
    Cardinality({i \in DOMAIN results : results[i] = <<d, v>>})

\* Tasks past the semaphore and still inside the async with block.
Admitted == {t \in Data : pc[t] \in {"wait", "eval", "sleep"}}

\* C1. Completeness: the list a run returns holds exactly |D| x |V|
\* entries, each (data point, combination) pair once, whatever the order in
\* which the tasks completed. (A parallel run with a failed task does not
\* return, and a cooperative run retries every failure.)
C1_Completeness ==
    mainpc = "returned" =>
        /\ Len(results) = NumData * all_combinations
        /\ \A d \in Data : \A v \in Combinations : Occurrences(d, v) = 1

\* A cooperative run of 3 data points and 2 combinations has returned, and
\* the first task to complete was not the first one submitted.
C1_Witness ==
    /\ async_eval
    /\ mainpc = "returned"
    /\ NumData = 3
    /\ all_combinations = 2
    /\ results[1][1] # 1

\* C2. Admission bound: the tasks inside the semaphore's block (retrying
\* ones included) never outnumber the semaphore's size, and the calls the
\* pool is running never outnumber its workers.
C2_AdmissionBound ==
    /\ Cardinality(Admitted) <= SemaphoreSize
    /\ Cardinality(Busy) <= PoolSize

\* Every slot is taken, one of the holders is backing off, and a further
\* task is waiting for a slot.
C2_Witness ==
    /\ Cardinality(Admitted) = SemaphoreSize
    /\ \E t \in Data : pc[t] = "sleep"
    /\ \E t \in Data : pc[t] = "acquire"

\* C3. Retry atomicity: in every state each task is in the results list
\* with all of its results, once, or with none; nothing is there of a task
\* that has not returned.
C3_RetryAtomicity ==
    \A t \in Data :
        \/ EntriesOf(t) = <<>>
        \/ /\ EntriesOf(t) = RunSingleInput(t)
           /\ pc[t] \in {"done", "finished"}

\* A task failed, backed off, succeeded, and its two results are merged.
C3_Witness ==
    \E t \in Data :
        /\ async_eval
        /\ backoffs[t] > 0
        /\ all_combinations = 2
        /\ EntriesOf(t) = RunSingleInput(t)

\* C4. Error classification, as claimed: a task whose attempt the engine
\* failed with EvaluationFailure has ended with that failure; it is not
\* waiting to be attempted again.
C4_ErrorClassification ==
    \A t \in Data : exc[t] = "EvaluationFailure" => pc[t] = "raised"

\* C5. Failure isolation, as claimed: a failed task does not abort the run.
C5_FailureIsolation ==
    \A t \in Data : pc[t] = "raised" => mainpc \notin {"shutdown", "raised"}

\* C6. Liveness of the cooperative scheduler, as claimed: a cooperative run
\* leads to every task done and _aprocess_dataset returned.
C6_CooperativeLiveness ==
    (async_eval /\ mainpc = "start") ~>
        (mainpc = "returned" /\ \A t \in Data : pc[t] = "done")

\* C7. Budget conservation: every step leaves the balance between 0 and the
\* capacity, and a step that completes a draw of the cooperative limiter
\* starts with at least one unit and takes exactly one.
C7_BudgetConservation ==
    [][/\ balance' \in 0..Capacity
       /\ \A t \in Data :
             (async_eval /\ draws'[t] > draws[t]) =>
                 (balance >= 1 /\ balance' = balance - 1)]_vars

\* The budget is empty after a draw and another task is blocked in wait().
C7_Witness ==
    /\ balance = 0
    /\ \E t \in Data : pc[t] = "wait"
    /\ \E t \in Data : pc[t] = "eval"

\* C8. Cost reporting on success, as claimed: a task that has returned has
\* reported the usage of each of its results.
C8_CostReporting ==
    \A t \in Data :
        (async_eval /\ pc[t] = "done") =>
            reported[t] = TotalUsage(retval[t].list)

\* C9. No cost for failed attempts: a task that has not returned has
\* reported nothing, and none has reported more than the usage of the
\* results of one successful attempt.
C9_NoCostForFailedAttempts ==
    \A t \in Data :
        /\ reported[t] <= TotalUsage(RunSingleInput(t))
        /\ pc[t] # "done" => reported[t] = 0

\* A task failed, backed off, succeeded and reported its whole usage.
C9_Witness ==
    \E t \in Data :
        /\ backoffs[t] > 0
        /\ pc[t] = "done"
        /\ reported[t] > 0
        /\ reported[t] = TotalUsage(RunSingleInput(t))

\* C10. Shared budget in the parallel variant, as claimed: the tasks that
\* have drawn have all drawn from one RateLimiter instance.
C10_SharedBudget ==
    \A t \in Data : \A u \in Data :
        (limiter_of[t] # -1 /\ limiter_of[u] # -1) =>
            limiter_of[t] = limiter_of[u]

\* C11. Slot release: the slots taken from the semaphore are as many as the
\* tasks inside the async with block, and once every task has returned or
\* been cancelled the semaphore is back at its size.
C11_SlotRelease ==
    /\ SemaphoreSize - semaphore = Cardinality(Admitted)
    /\ (\A t \in Data : pc[t] \in {"done", "cancelled"}) =>
           semaphore = SemaphoreSize

\* Three tasks have returned, one of them after a failed attempt and its
\* backoff, and every slot is free again.
C11_Witness ==
    /\ NumData = 3
    /\ \A t \in Data : pc[t] = "done"
    /\ \E t \in Data : backoffs[t] > 0
    /\ semaphore = SemaphoreSize

\* C12. Draw requires admission: a step in which a task completes a draw
\* starts and ends with that task holding a slot, of the semaphore in a
\* cooperative run and of the pool in a parallel one.
C12_DrawRequiresAdmission ==
    [][\A t \in Data :
          draws'[t] > draws[t] =>
              IF async_eval
              THEN /\ pc[t] \in {"wait", "eval", "sleep"}
                   /\ pc'[t] \in {"wait", "eval", "sleep"}
              ELSE /\ pc[t] \in {"limiting", "running"}
                   /\ pc'[t] \in {"limiting", "running"}]_vars

\* A task holding a slot has drawn a second time, for its retry, while a
\* task that has no slot yet has not drawn.
C12_Witness ==
    /\ async_eval
    /\ \E t \in Admitted : draws[t] = 2
    /\ \E u \in Data : pc[u] = "acquire" /\ draws[u] = 0

\* C13. Backoff ordering: in a cooperative run each failed attempt of a task
\* is followed by one backoff, which is over before the task draws or is
\* attempted again; so a task has completed as many backoffs as attempts of
\* it have failed, less the one it is sleeping in. A task that has returned
\* after k failures has had k backoffs and returns the whole task's results.
C13_BackoffOrdering ==
    async_eval =>
        \A t \in Data :
            /\ backoffs[t] = fails[t] - (IF pc[t] = "sleep" THEN 1 ELSE 0)
            /\ (pc[t] = "done" /\ ~retval[t].isnone) =>
                   retval[t].list = RunSingleInput(t)

\* A task failed twice, backed off twice and then returned.
C13_Witness ==
    \E t \in Data :
        /\ async_eval
        /\ fails[t] = 2
        /\ backoffs[t] = 2
        /\ pc[t] = "done"

\* The (data point, combination) keys of the results list.
KeySet == {results[i] : i \in DOMAIN results}

C16_PostProcessingOrder ==
    mainpc \in {"selection", "improver"} =>
        /\ \A t \in Data :
              /\ pc[t] \in {"done", "finished"}
              /\ EntriesOf(t) = retval[t].list
        /\ completed = <<>>

\* The improver runs after a cooperative run of three tasks, one of which
\* was retried.
C16_Witness ==
    /\ mainpc = "improver"
    /\ async_eval
    /\ NumData = 3
    /\ all_combinations = 2
    /\ \E t \in Data : backoffs[t] > 0

RECURSIVE SumOver(_, _)
SumOver(f, S) ==
    IF S = {} THEN 0
    ELSE LET x == CHOOSE y \in S : TRUE IN f[x] + SumOver(f, S \ {x})

\* Draws completed by all tasks of the run.
TotalDraws == SumOver(draws, Data)

\* No add_tokens call has been made yet.
NoReplenishYet == \A t \in Data : reported[t] = 0

\* C15. Scenario B, with the capacity and the ceiling of the model: without
\* passive refill and before any replenish, each completed draw has taken
\* one unit of the full budget, so at most Capacity draws complete, and once
\* they have the budget is empty and no further draw can complete.
C15_ScenarioB ==
    (async_eval /\ NoReplenishYet) =>
        /\ TotalDraws <= Capacity
        /\ balance = Capacity - TotalDraws
        /\ TotalDraws = Capacity =>
               (~CanDraw(balance) /\ \A t \in Data : ~ENABLED ADraw(t))

\* As many draws as the capacity have completed, nothing has been
\* replenished, and a task holding a slot is blocked in wait().
C15_Witness ==
    /\ async_eval
    /\ NoReplenishYet
    /\ SemaphoreSize = Capacity
    /\ TotalDraws = Capacity
    /\ \E t \in Data : pc[t] = "wait"

\* C17. Slot held across backoff: the step into a backoff and the step out
\* of it leave the semaphore as it is, so the sleeping task still counts
\* against the ceiling; and a pending task is admitted only in a state with
\* fewer admitted tasks, sleeping ones included, than the semaphore's size.
C17_SlotHeldAcrossBackoff ==
    [][/\ \A t \in Data :
             (\/ pc[t] = "eval" /\ pc'[t] = "sleep"
              \/ pc[t] = "sleep" /\ pc'[t] = "wait") =>
                 semaphore' = semaphore
       /\ \A u \in Data :
             (pc[u] = "acquire" /\ pc'[u] = "wait") =>
                 Cardinality(Admitted) < SemaphoreSize]_vars

\* Every slot is held by a task that is backing off, and a pending task
\* cannot be admitted.
C17_Witness ==
    /\ Cardinality({t \in Data : pc[t] = "sleep"}) = SemaphoreSize
    /\ \E u \in Data : pc[u] = "acquire"
    /\ ~CanAcquire

\* C18. Progress accounting, as claimed: the progress bar's count never
\* exceeds its total, and when a run without failures returns the count
\* equals the total.
C18_ProgressAccounting ==
    /\ pbar_n <= pbar_total
    /\ (mainpc = "returned" /\ failures = 0) => pbar_n = pbar_total

\* C19. Task Executor result shape, as claimed: a task of a cooperative run
\* that has returned has returned a list of one result per combination,
\* never a value that is not a list.
C19_ResultShape ==
    \A t \in Data :
        (async_eval /\ pc[t] = "done") =>
            /\ ~retval[t].isnone
            /\ Len(retval[t].list) = all_combinations

\* C20. Draw per attempt: a task of a cooperative run has completed one
\* draw for each attempt it has made, the failed ones and the one that is
\* running or has returned.
C20_DrawPerAttempt ==
    async_eval =>
        \A t \in Data :
            pc[t] # "cancelled" =>
                draws[t] = fails[t]
                           + (IF pc[t] \in {"eval", "done"} THEN 1 ELSE 0)

\* A task has returned from its third attempt, after three draws.
C20_Witness ==
    \E t \in Data :
        /\ async_eval
        /\ pc[t] = "done"
        /\ fails[t] = 2
        /\ draws[t] = 3

====
